---- MODULE Spec2Model ----
(***************************************************************************)
(* The /api/evaluate route of evaluator-travaux-etudiants: one POST        *)
(* handler (five revisions of it live in the repository) that saves an     *)
(* upload to a scratch file, extracts its text, asks a chat-completion     *)
(* endpoint for an evaluation, parses the JSON object of the reply and     *)
(* removes the scratch file; and the form page that posts to it.           *)
(*                                                                         *)
(* Strings are sequences of tokens.  A model reply is a sequence over      *)
(*   "{"  "}"  "p" (one "key": scalar member)  "1" (a digit)               *)
(*   "x" (a character of free text)  " " (white space).                    *)
(* An extracted text is a sequence over "a" (a visible character) and " ". *)
(* A URL is a sequence over "h" (scheme and host), "/", "v1", "chat",      *)
(* "completions".  A file name is the sequence of its dot-separated parts. *)
(***************************************************************************)
EXTENDS Integers, Sequences, FiniteSets, TLC

VARIABLES
    rev,            \* which revision of route.ts is deployed
    keyConfigured,  \* an API key is configured (Z_AI_API_KEY / OPENAI_API_KEY / SDK config)
    clock,          \* Date.now()
    dirExists,      \* /tmp/uploads exists
    disk,           \* files of /tmp/uploads: set of [path, owner]
    fsFns,          \* fs.existsSync/readFileSync/statSync: "orig" or the request whose patch is installed
    envHome,        \* process.env.HOME
    configFile,     \* /tmp/.z-ai-config exists
    domMatrix,      \* global.DOMMatrix is defined
    req,            \* per request: the handler's locals and its position
    arg,            \* input of the pure function under study
    res,            \* its result
    page            \* the form page in the browser: its React state and its file input

vars == <<rev, keyConfigured, clock, dirExists, disk, fsFns, envHome, configFile,
          domMatrix, req, arg, res, page>>

(***************************************************************************)
(* Revisions.                                                              *)
(***************************************************************************)
RevZai    == "route.ts#1"     \* src/src/app/api/evaluate/route.ts lines 1-200   (ZAIClient)
RevSdk    == "route.ts#2"     \* src/src/app/api/evaluate/route.ts lines 201-462 (z-ai-web-dev-sdk)
RevOpenAI == "part_000"       \* src/unnamed/part_000 (OpenAIClient)
RevPatch  == "part_001"       \* src/unnamed/part_001 (fs-patching initZAI)
RevConfig == "part_002"       \* src/unnamed/part_002 (config-file initZAI)

Revisions == {RevZai, RevSdk, RevOpenAI, RevPatch, RevConfig}

\* revisions whose model client is written in the repository
OwnClient(r) == r \in {RevZai, RevOpenAI}

\* revisions that require instructions and criteria
Strict(r) == r \in {RevSdk, RevConfig}

(***************************************************************************)
(* Bounds.                                                                 *)
(***************************************************************************)
MaxReplyLen == 5      \* longest reply given to the response parser alone
MaxPipeReply == 3     \* longest reply the stubbed endpoint sends in the pipeline
MaxUrlLen == 7        \* longest path (in tokens) after the host of a base URL
MaxClock == 1         \* Date.now() ranges over 0..MaxClock
MaxPad == 1           \* most leading white space of an extracted text

MinTextLen == 10      \* the length below which an extracted text is rejected

(***************************************************************************)
(* Generic string helpers.                                                 *)
(***************************************************************************)
RECURSIVE SeqsUpTo(_, _)
SeqsUpTo(S, n) ==
    IF n = 0 THEN {<<>>}
    ELSE LET shorter == SeqsUpTo(S, n - 1)
         IN  shorter \cup {Append(s, c) : s \in {t \in shorter : Len(t) = n - 1}, c \in S}

RECURSIVE Repeat(_, _)
Repeat(c, n) == IF n = 0 THEN <<>> ELSE <<c>> \o Repeat(c, n - 1)

Contains(s, c) == \E i \in 1..Len(s) : s[i] = c

\* String.prototype.endsWith
EndsWith(s, suffix) ==
    /\ Len(suffix) <= Len(s)
    /\ SubSeq(s, Len(s) - Len(suffix) + 1, Len(s)) = suffix

\* the start positions of `part` in s
Occurrences(s, part) ==
    {i \in 1..(Len(s) - Len(part) + 1) : SubSeq(s, i, i + Len(part) - 1) = part}

\* String.prototype.includes
Includes(s, part) == Occurrences(s, part) # {}

\* String.prototype.trim over the white-space token " "
TrimWs(s) ==
    LET keep == {i \in 1..Len(s) : s[i] # " "}
    IN  IF keep = {} THEN <<>>
        ELSE SubSeq(s, CHOOSE i \in keep : \A j \in keep : i <= j,
                       CHOOSE i \in keep : \A j \in keep : j <= i)

NotWs(c) == c # " "

(***************************************************************************)
(* JSON.parse over reply tokens.  The texts it accepts are                  *)
(*   value  ::= ws* (object | number) ws*                                  *)
(*   object ::= "{" (ws | "p" | object)* "}"                               *)
(*   number ::= "1"+                                                       *)
(* and the value it returns is the text without its white space.           *)
(***************************************************************************)
ReplyTokens == {"{", "}", "p", "1", "x", " "}

\* tokens i..Len(s) close an object opened d levels deep, and nothing follows it
RECURSIVE ClosesAt(_, _, _)
ClosesAt(s, i, d) ==
    IF i > Len(s) THEN d = 0
    ELSE IF d = 0 THEN FALSE
    ELSE IF s[i] = "{" THEN ClosesAt(s, i + 1, d + 1)
    ELSE IF s[i] = "}" THEN ClosesAt(s, i + 1, d - 1)
    ELSE IF s[i] \in {"p", " "} THEN ClosesAt(s, i + 1, d)
    ELSE FALSE

IsObjectText(s) == Len(s) >= 2 /\ s[1] = "{" /\ ClosesAt(s, 2, 1)

IsNumberText(s) == Len(s) >= 1 /\ \A i \in 1..Len(s) : s[i] = "1"

SyntaxError == <<"SyntaxError">>

JsonParse(s) ==
    LET t == TrimWs(s)
    IN  IF IsObjectText(t) \/ IsNumberText(t)
        THEN [ok |-> TRUE, value |-> SelectSeq(t, NotWs), msg |-> <<>>]
        ELSE [ok |-> FALSE, value |-> <<>>, msg |-> SyntaxError]

(***************************************************************************)
(* response.match(/\{[\s\S]*\}/): the span from the first "{" to the last  *)
(* "}" behind it, or no match.                                             *)
(***************************************************************************)
Opens(s) == {i \in 1..Len(s) : s[i] = "{"}
FirstOpen(s) == CHOOSE i \in Opens(s) : \A j \in Opens(s) : i <= j
ClosesAfter(s, i) == {j \in (i + 1)..Len(s) : s[j] = "}"}

FirstClose(s, i) == CHOOSE j \in ClosesAfter(s, i) : \A k \in ClosesAfter(s, i) : j <= k
LastClose(s, i) == CHOOSE j \in ClosesAfter(s, i) : \A k \in ClosesAfter(s, i) : k <= j

HasMatch(s) == Opens(s) # {} /\ ClosesAfter(s, FirstOpen(s)) # {}
MatchSpan(s) == SubSeq(s, FirstOpen(s), LastClose(s, FirstOpen(s)))

(***************************************************************************)
(* The tail of evaluateWork: from the reply text to the parsed value or    *)
(* the error thrown inside the try block.                                  *)
(***************************************************************************)
MsgNoReply(rv) ==
    IF rv = RevOpenAI THEN <<"Pas de reponse du modele.">> ELSE <<"Pas de reponse du LLM">>
MsgInvalidReply == <<"Reponse invalide du LLM">>

\* revisions that hand the whole reply to JSON.parse when the pattern does not match
ParsesWholeReply(rv) == rv \in {RevZai, RevOpenAI}

ParseReply(rv, response) ==
    IF response = <<>> THEN [ok |-> FALSE, value |-> <<>>, msg |-> MsgNoReply(rv)]
    ELSE IF HasMatch(response) THEN JsonParse(MatchSpan(response))
    ELSE IF ParsesWholeReply(rv) THEN JsonParse(response)
    ELSE [ok |-> FALSE, value |-> <<>>, msg |-> MsgInvalidReply]


(***************************************************************************)
(* The URL of the completion request.                                      *)
(***************************************************************************)
UrlTokens == {"/", "v1", "chat", "completions"}
Host == <<"h">>
CompletionPath == <<"/", "chat", "/", "completions">>
VersionPath == <<"/", "v1">>

\* s.replace(/\/+$/, '')
RECURSIVE StripSlashes(_)
StripSlashes(s) ==
    IF s # <<>> /\ s[Len(s)] = "/" THEN StripSlashes(SubSeq(s, 1, Len(s) - 1)) ELSE s

\* process.env.X || fallback
OrDefault(value, fallback) == IF value = <<>> THEN fallback ELSE value

DefaultBase(rv) == IF rv = RevOpenAI THEN Host \o VersionPath ELSE Host

ZaiUrl(baseUrl) == StripSlashes(baseUrl) \o CompletionPath

OpenAIUrl(apiEndpoint) ==
    LET url == StripSlashes(apiEndpoint)
    IN  IF EndsWith(url, CompletionPath) THEN url
        ELSE IF ~Includes(url, VersionPath) THEN url \o VersionPath \o CompletionPath
        ELSE url \o CompletionPath

\* the URL createCompletion fetches, from the value of the base-URL variable
BuildUrl(rv, envBase) ==
    IF rv = RevOpenAI THEN OpenAIUrl(OrDefault(envBase, DefaultBase(rv)))
    ELSE ZaiUrl(OrDefault(envBase, DefaultBase(rv)))


(***************************************************************************)
(* File names and the type tag.                                            *)
(***************************************************************************)
FileNames ==
    { <<"essay", "pdf">>, <<"essay", "PDF">>, <<"essay", "Docx">>,
      <<"notes", "txt">>, <<"pdf">>, <<"essay", "">> }

\* a lower-casing that leaves the part as it is
KeepCase(part) == part

\* String.prototype.toLowerCase on one dot-separated part
ToLowerCase(part) ==
    CASE part = "PDF"  -> "pdf"
      [] part = "Docx" -> "docx"
      [] part = "DOCX" -> "docx"
      [] OTHER         -> part

\* fileName.split('.').pop()?.toLowerCase() || '' where fileName is
\* `${timestamp}-${file.name}`: with no dot in the name the last part still
\* carries the time stamp
FileType(fileName) ==
    LET parts == fileName.name
        last  == parts[Len(parts)]
    IN  IF Len(parts) = 1 THEN <<ToString(fileName.ts), "-", ToLowerCase(last)>>
        ELSE IF last = "" THEN <<>>
        ELSE <<ToLowerCase(last)>>

IsPdf(fileType) == fileType = <<"pdf">>
IsDocx(fileType) == fileType = <<"docx">>

(***************************************************************************)
(* The form fields and the conversation built from them.                   *)
(***************************************************************************)
\* formData.get(...) of the four text fields; "" stands for an absent or empty field
Forms ==
    { [assignmentTitle |-> "T", subject |-> "S", instructions |-> i, criteria |-> c] :
        i \in {"", "I"}, c \in {"", "C"} }

NoForm == [assignmentTitle |-> "", subject |-> "", instructions |-> "", criteria |-> ""]

\* !instructions || !criteria
FieldsMissing(form) == form.instructions = "" \/ form.criteria = ""

\* a user prompt that carries the time of the call
ConversationWithDate(rv, form, studentWork) ==
    << [role |-> "user",
        content |-> <<form.assignmentTitle, form.subject, form.instructions,
                      form.criteria, studentWork, ToString(clock)>>] >>

\* the messages of chat.completions.create: the system prompt (sent with the
\* role 'assistant' to the SDK; the second revision of route.ts puts the
\* subject into it) and the user prompt filled from the fields and the text
Conversation(rv, form, studentWork) ==
    << [role |-> IF OwnClient(rv) THEN "system" ELSE "assistant",
        content |-> IF rv = RevSdk THEN <<"systemPrompt", form.subject>>
                    ELSE <<"systemPrompt">>],
       [role |-> "user",
        content |-> <<form.assignmentTitle, form.subject, form.instructions,
                      form.criteria, studentWork>>] >>

(***************************************************************************)
(* Extracted text.                                                         *)
(***************************************************************************)
RawTexts ==
    { Repeat(" ", lead) \o Repeat("a", core) \o Repeat(" ", trail) :
        lead \in 0..MaxPad, core \in {0, MinTextLen - 1, MinTextLen},
        trail \in {0, MinTextLen} }

\* s.replace(/\s+/g, ' ')
RECURSIVE CollapseWs(_)
CollapseWs(s) ==
    IF Len(s) <= 1 THEN s
    ELSE IF s[1] = " " /\ s[2] = " " THEN CollapseWs(Tail(s))
    ELSE <<s[1]>> \o CollapseWs(Tail(s))

\* what extractTextFromPDF returns for a one-page document holding `raw`
PdfText(rv, raw) == IF rv = RevSdk THEN TrimWs(CollapseWs(raw)) ELSE TrimWs(raw)

\* what extractTextFromDOCX returns: mammoth's raw text
DocxText(rv, raw) == raw

\* revisions whose length check trims the text first
TrimsBeforeCheck(rv) == rv \in {RevSdk, RevConfig}

\* the orchestrator's check: !studentWork || length < 10
TooShort(rv, studentWork) ==
    \/ studentWork = <<>>
    \/ Len(IF TrimsBeforeCheck(rv) THEN TrimWs(studentWork) ELSE studentWork) < MinTextLen

(***************************************************************************)
(* Thrown values and error messages.                                       *)
(***************************************************************************)
\* a thrown value: an Error, a value without `message` (a string, a plain
\* object), or null / undefined, whose properties cannot be read
Error(msg) == [isError |-> TRUE, hasMsg |-> TRUE, nullish |-> FALSE, msg |-> msg]
NonError == [isError |-> FALSE, hasMsg |-> FALSE, nullish |-> FALSE, msg |-> <<>>]
Nullish == [isError |-> FALSE, hasMsg |-> FALSE, nullish |-> TRUE, msg |-> <<>>]
NoThrow == [isError |-> FALSE, hasMsg |-> FALSE, nullish |-> FALSE, msg |-> <<"-">>]

\* `${error.message}`
MessageText(e) == IF e.hasMsg THEN e.msg ELSE <<"undefined">>

\* what `error.message` throws when error is null or undefined
MessageTypeError == Error(<<"Cannot read properties of undefined (reading 'message')">>)

MsgMissingFile(rv) ==
    IF Strict(rv) THEN <<"Aucun fichier fourni">> ELSE <<"Fichier manquant">>

MsgMissingFields(rv) ==
    IF rv = RevSdk THEN <<"Consignes ou criteres manquants">> ELSE <<"Consignes manquantes">>

MsgUnsupported(rv) ==
    CASE rv = RevZai    -> <<"Type non supporte">>
      [] rv = RevOpenAI -> <<"Type de fichier non supporte (PDF ou DOCX uniquement).">>
      [] OTHER          -> <<"Type de fichier non supporte">>

MsgTooShort(rv, studentWork) ==
    CASE rv \in {RevZai, RevOpenAI} -> <<"Le fichier semble vide ou illisible.">>
      [] rv = RevPatch  -> <<"Texte insuffisant">>
      [] rv = RevConfig -> <<"Texte extrait trop court.">>
      [] OTHER -> <<"Texte extrait trop court (", ToString(Len(studentWork)), " caracteres).">>

MsgMissingKey(rv) ==
    IF rv = RevOpenAI THEN <<"Cle API manquante. Ajoutez OPENAI_API_KEY.">>
    ELSE <<"Cle API manquante. Verifiez Z_AI_API_KEY.">>

MsgUpstream(status, body) == <<"Erreur API (", status, "): ", body>>

\* the catch blocks of extractTextFromPDF / extractTextFromDOCX
ExtractionError(rv, isPdf, e) ==
    CASE rv = RevSdk ->
            Error(<<IF isPdf THEN "Erreur lors de l'extraction du texte du PDF: "
                             ELSE "Erreur lors de l'extraction du texte du DOCX: ">>
                  \o (IF e.isError THEN e.msg ELSE <<"Erreur inconnue">>))
      [] rv = RevPatch ->
            IF e.nullish THEN MessageTypeError
            ELSE Error(<<IF isPdf THEN "Erreur PDF: " ELSE "Erreur DOCX: ">> \o MessageText(e))
      [] rv = RevConfig ->
            Error(<<IF isPdf THEN "Erreur PDF: " ELSE "Erreur DOCX: ">>
                  \o (IF e.isError THEN e.msg ELSE <<"Inconnue">>))
      [] OTHER -> e

\* the catch block of evaluateWork
EvaluationError(rv, e) ==
    CASE rv = RevSdk -> Error(<<"Erreur lors de l'evaluation par l'IA">>)
      [] rv = RevConfig ->
            Error(<<"Erreur lors de l'evaluation par l'IA: ">>
                  \o (IF e.isError THEN e.msg ELSE <<"Erreur inconnue">>))
      [] OTHER -> IF e.nullish THEN MessageTypeError
                  ELSE Error(<<"Erreur IA: ">> \o MessageText(e))

(***************************************************************************)
(* Responses.                                                              *)
(***************************************************************************)
NoResponse == [status |-> 0, hasError |-> FALSE, error |-> <<>>, json |-> <<>>]

\* a response that rejects an object without members
SchemaCheckedResponse(value) ==
    IF Contains(value, "p")
    THEN [status |-> 200, hasError |-> FALSE, error |-> <<>>, json |-> value]
    ELSE [status |-> 500, hasError |-> TRUE, error |-> <<"Reponse incomplete">>, json |-> <<>>]

JsonResponse(value) == [status |-> 200, hasError |-> FALSE, error |-> <<>>, json |-> value]

ErrorResponse(status, msg) ==
    [status |-> status, hasError |-> TRUE, error |-> msg, json |-> <<>>]

\* the outer catch block of POST reads error.message of a null or undefined
\* value: the TypeError leaves the handler
Escapes(rv, e) == e.nullish /\ rv # RevSdk

\* the outer catch block of POST
CatchResponse(rv, e) ==
    CASE rv = RevSdk ->
            ErrorResponse(500, IF e.isError THEN e.msg ELSE <<"Erreur lors de l'evaluation">>)
      [] rv = RevConfig ->
            ErrorResponse(500, IF e.hasMsg /\ e.msg # <<>> THEN e.msg ELSE <<"Erreur interne">>)
      [] OTHER ->
            [status |-> 500, hasError |-> e.hasMsg, error |-> e.msg, json |-> <<>>]


(***************************************************************************)
(* The endpoint's answers.                                                 *)
(***************************************************************************)
\* the stubbed endpoint's replies are written without members and white space
PipeTokens == {"{", "}", "1", "x"}
PipeReplies == SeqsUpTo(PipeTokens, MaxPipeReply)

\* the success body: `choices` absent, empty, a choice without message, or a content
Completions ==
    { [shape |-> sh, content |-> <<>>] : sh \in {"noChoices", "emptyChoices", "noMessage"} }
    \cup { [shape |-> "content", content |-> c] : c \in PipeReplies }

NoCompletion == [shape |-> "none", content |-> <<>>]

UpstreamStatuses == {"429", "500"}
UpstreamBodies == {"quota exceeded"}
NoUpstream == [status |-> "", body |-> ""]

TypeError == <<"Cannot read properties of undefined (reading '0')">>

\* completion.choices[0]?.message?.content, the !response test, the pattern
\* match and JSON.parse
EvaluateReply(rv, completion) ==
    IF completion.shape = "noChoices" /\ rv # RevOpenAI
    THEN [ok |-> FALSE, value |-> <<>>, msg |-> TypeError]
    ELSE IF completion.shape # "content" THEN ParseReply(rv, <<>>)
    ELSE ParseReply(rv, completion.content)

\* what the SDK throws: an Error or something that is not one
LibraryErrors == {Error(<<"library failure">>), NonError, Nullish}

\* the SDK's error for a non-success status
SdkUpstreamError(status, body) == Error(<<"API request failed with status ", status, ": ", body>>)

(***************************************************************************)
(* The form page (src/unnamed/part_003): the state of the Home component,  *)
(* the file input of its form, and the submission in flight.               *)
(***************************************************************************)
MaxSubmits == 2       \* most submissions the page starts

\* JavaScript's null
Null == <<"null">>

\* the files a user can pick in the dialog
PageFiles == { <<"essay", "PDF">>, <<"essay", "Docx">>, <<"notes", "txt">>, <<"pdf">> }

\* the values the page's text fields take
FieldValues ==
    [ assignmentTitle |-> {"", "T"}, subject |-> {"", "S"},
      instructions |-> {"", "I"}, criteria |-> {"", "C"} ]

NoFormData == [file |-> Null, assignmentTitle |-> "", subject |-> "",
               instructions |-> "", criteria |-> ""]

\* useState(...): the state of Home when it is mounted
FreshPage ==
    [ isLoading       |-> FALSE,
      file            |-> Null,
      assignmentTitle |-> "",
      subject         |-> "",
      instructions    |-> "",
      criteria        |-> "",
      result          |-> Null,
      error           |-> Null,
      chosen          |-> Null,        \* e.target.files[0] of the file input
      inFlight        |-> FALSE,       \* handleSubmit is suspended at an await
      sent            |-> NoFormData,  \* the body of the last request to /api/evaluate
      nSent           |-> 0 ]

\* `!value` for a JSON value
Falsy(value) == value \in {Null, <<"0">>}

\* {!result ? <form .../> : <results .../>}
FormShown == Falsy(page.result)

\* selectedFile.name.split('.').pop()?.toLowerCase()
FileExtension(name) == ToLowerCase(name[Len(name)])

\* fileExtension !== 'pdf' && fileExtension !== 'docx'
Refused(name) == FileExtension(name) # "pdf" /\ FileExtension(name) # "docx"

\* handleFileChange, on the change event of the file input
HandleFileChange ==
    /\ FormShown
    /\ \E selectedFile \in PageFiles \cup {Null} :
          /\ selectedFile # page.chosen
          /\ page' = IF selectedFile = Null \/ Refused(selectedFile)
                     THEN [page EXCEPT !.chosen = selectedFile]
                     ELSE [page EXCEPT !.chosen = selectedFile, !.file = selectedFile,
                                       !.error = Null]
    /\ UNCHANGED <<rev, keyConfigured, clock, dirExists, disk, fsFns, envHome,
                   configFile, domMatrix, req, arg, res>>

\* the onChange / onValueChange handlers of the four text fields
SetField ==
    /\ FormShown
    /\ \E field \in DOMAIN FieldValues : \E value \in FieldValues[field] :
          /\ value # page[field]
          /\ page' = [page EXCEPT ![field] = value]
    /\ UNCHANGED <<rev, keyConfigured, clock, dirExists, disk, fsFns, envHome,
                   configFile, domMatrix, req, arg, res>>

\* `text || fallback`
OrElse(text, fallback) == IF text = "" THEN fallback ELSE text

\* the FormData handleSubmit builds
FormData ==
    [ file            |-> page.file,
      assignmentTitle |-> OrElse(page.assignmentTitle, "Devoir sans titre"),
      subject         |-> OrElse(page.subject, "General"),
      instructions    |-> page.instructions,
      criteria        |-> page.criteria ]

\* the submit button is enabled: disabled={isLoading || !file}
CanSubmit == ~(page.isLoading \/ page.file = Null)

\* handleSubmit up to `await fetch('/api/evaluate', ...)`: the two toasts
\* with return, or the three state updates and the request
HandleSubmit ==
    /\ FormShown
    /\ CanSubmit
    /\ page.nSent < MaxSubmits
    /\ page' = IF page.file = Null THEN page
               ELSE IF page.instructions = "" \/ page.criteria = "" THEN page
               ELSE [page EXCEPT !.isLoading = TRUE, !.error = Null, !.result = Null,
                                 !.inFlight = TRUE, !.sent = FormData,
                                 !.nSent = page.nSent + 1]
    /\ UNCHANGED <<rev, keyConfigured, clock, dirExists, disk, fsFns, envHome,
                   configFile, domMatrix, req, arg, res>>

\* the bodies POST answers 200 with: the parsed object, and in the revisions
\* that hand a reply without braces to JSON.parse any other JSON value
OkBodies(rv) ==
    { <<"{", "}">> } \cup (IF ParsesWholeReply(rv) THEN { <<"0">>, <<"1">>, Null } ELSE {})

\* what fetch gives the page: a rejection, a response whose body is not JSON,
\* or a response of POST
NotJson == [status |-> 500, hasError |-> FALSE, error |-> <<"<!DOCTYPE html>">>, json |-> <<>>]
FetchRejected == [status |-> 0, hasError |-> FALSE, error |-> <<"Failed to fetch">>, json |-> <<>>]

FetchOutcomes(rv) ==
    { JsonResponse(body) : body \in OkBodies(rv) }
    \cup { ErrorResponse(400, MsgMissingFields(rv)),
           CatchResponse(rv, Error(MsgUnsupported(rv))),
           CatchResponse(rv, NonError),
           NotJson, FetchRejected }

\* the rest of handleSubmit's try block and its catch block: the state update
\* they make, as [result, error]
Settled(outcome) ==
    IF outcome = FetchRejected
        THEN [result |-> page.result, error |-> outcome.error]
    ELSE IF outcome = NotJson
        THEN [result |-> page.result, error |-> <<"Unexpected token '<'">>]
    ELSE IF outcome.status # 200
        THEN [result |-> page.result,
              error |-> IF outcome.hasError /\ outcome.error # <<>> THEN outcome.error
                        ELSE <<"Erreur lors de l'evaluation">>]
    ELSE [result |-> outcome.json, error |-> page.error]

\* handleSubmit from the return of fetch to the end of its finally block
FetchSettled ==
    /\ page.inFlight
    /\ \E outcome \in FetchOutcomes(rev) :
          LET update == Settled(outcome)
          IN  page' = [page EXCEPT !.result = update.result, !.error = update.error,
                                   !.isLoading = FALSE, !.inFlight = FALSE,
                                   !.chosen = IF Falsy(update.result) THEN page.chosen
                                              ELSE Null]
    /\ UNCHANGED <<rev, keyConfigured, clock, dirExists, disk, fsFns, envHome,
                   configFile, domMatrix, req, arg, res>>

\* handleReset, on the button of the results card
HandleReset ==
    /\ ~FormShown
    /\ page' = [page EXCEPT !.file = Null, !.assignmentTitle = "", !.subject = "",
                            !.instructions = "", !.criteria = "",
                            !.result = Null, !.error = Null]
    /\ UNCHANGED <<rev, keyConfigured, clock, dirExists, disk, fsFns, envHome,
                   configFile, domMatrix, req, arg, res>>

(***************************************************************************)
(* State of one request.                                                   *)
(***************************************************************************)
Requests == {"r1", "r2"}

NoFile == [ts |-> 0, name |-> <<>>]

IdleRequest ==
    [ pc         |-> "idle",
      parsed     |-> FALSE,        \* req.formData() returned
      hasFile    |-> FALSE,        \* formData.get('file') is present
      hasFields  |-> FALSE,        \* instructions and criteria are both non-empty
      form       |-> NoForm,       \* the four text fields
      conversation |-> <<>>,       \* the messages sent to the endpoint
      fileName   |-> NoFile,       \* `${timestamp}-${file.name}`, the name under UPLOAD_DIR
      written    |-> FALSE,        \* writeFile returned
      extracted  |-> FALSE,        \* extractText returned
      text       |-> <<>>,         \* studentWork
      completion |-> NoCompletion, \* the endpoint's success body
      upstream   |-> NoUpstream,   \* the endpoint's non-success status and body
      failed     |-> FALSE,        \* an exception is propagating
      thrown     |-> NoThrow,
      hasResult  |-> FALSE,        \* evaluateWork returned
      result     |-> <<>>,
      resp       |-> NoResponse,   \* the response returned
      saved      |-> "orig",       \* originalExistsSync etc. of the patching initZAI
      unlinkOk   |-> FALSE,        \* unlink resolved
      nExtract   |-> 0,            \* calls of extractText
      nInit      |-> 0,            \* calls of ZAIClient.create / OpenAIClient.create / ZAI.create
      nCreate    |-> 0,            \* calls of chat.completions.create
      nHttp      |-> 0,            \* outbound HTTP requests
      nUnlink    |-> 0 ]           \* calls of unlink

NoArg == [fn |-> "none", rv |-> "", s |-> <<>>]
NoRes == [done |-> FALSE, ok |-> FALSE, value |-> <<>>, msg |-> <<>>]

OnDisk(path) == \E f \in disk : f.path = path
WithoutPath(path) == {f \in disk : f.path # path}

Set(r, fields) == [req EXCEPT ![r] = fields @@ req[r]]

\* an exception reaches the outer catch block of POST before the inner try
Caught(r, e) ==
    IF Escapes(rev, e) THEN Set(r, [pc |-> "escaped"])
    ELSE Set(r, [pc |-> "done", resp |-> CatchResponse(rev, e)])

\* an inner block whose unlink is not in a finally clause: an exception goes
\* past it to the outer catch block
ThrowPastUnlink(r, e, more) == Set(r, [pc |-> "respond", failed |-> TRUE, thrown |-> e] @@ more)

\* an exception leaves the inner try block: the finally block runs next
Throw(r, e, more) == Set(r, [pc |-> "finally", failed |-> TRUE, thrown |-> e] @@ more)


(***************************************************************************)
(* What the outside world can hand to one request: the uploads, the form   *)
(* fields, the texts the extraction libraries find, the endpoint's answers *)
(* and the values the libraries throw.                                     *)
(***************************************************************************)
AnyInput ==
    [ names       |-> FileNames,
      forms       |-> Forms,
      texts       |-> RawTexts,
      completions |-> Completions,
      statuses    |-> UpstreamStatuses,
      errors      |-> LibraryErrors ]

(***************************************************************************)
(* POST, step by step.  A step runs from one await to the next.            *)
(***************************************************************************)
Shared == <<rev, keyConfigured, arg, res, page>>

\* await ensureUploadDir()
EnsureUploadDir(r) ==
    /\ req[r].pc = "start"
    /\ \/ /\ dirExists
          /\ req' = Set(r, [pc |-> "form"])
          /\ UNCHANGED dirExists
       \/ /\ ~dirExists
          /\ dirExists' = TRUE
          /\ req' = Set(r, [pc |-> "form"])
       \/ /\ ~dirExists
          /\ req' = Caught(r, Error(<<"EACCES: mkdir '/tmp/uploads'">>))
          /\ UNCHANGED dirExists
    /\ UNCHANGED <<Shared, clock, disk, fsFns, envHome, configFile, domMatrix>>

\* a handler without the test of the file
EarlyReturnFieldsOnly(rv, hasFile, hasFields) ==
    IF Strict(rv) /\ ~hasFields THEN ErrorResponse(400, MsgMissingFields(rv)) ELSE NoResponse

\* a handler that tests the fields before the file
EarlyReturnFieldsFirst(rv, hasFile, hasFields) ==
    IF Strict(rv) /\ ~hasFields THEN ErrorResponse(400, MsgMissingFields(rv))
    ELSE IF ~hasFile THEN ErrorResponse(400, MsgMissingFile(rv))
    ELSE NoResponse

\* the early returns of POST: `if (!file)` and, in the strict revisions,
\* `if (!instructions || !criteria)`; NoResponse when the handler goes on
EarlyReturn(rv, hasFile, hasFields) ==
    IF ~hasFile THEN ErrorResponse(400, MsgMissingFile(rv))
    ELSE IF Strict(rv) /\ ~hasFields THEN ErrorResponse(400, MsgMissingFields(rv))
    ELSE NoResponse

\* await req.formData(), the checks of the fields, Date.now() and the scratch path
ParseForm(r, in) ==
    /\ req[r].pc = "form"
    /\ \/ /\ req' = Caught(r, Error(<<"Failed to parse body as FormData.">>))
          /\ UNCHANGED clock
       \/ \E file \in BOOLEAN, form \in in.forms, name \in in.names, now \in clock..MaxClock :
            LET fields == ~FieldsMissing(form)
                early == EarlyReturn(rev, file, fields)
                got == [parsed |-> TRUE, hasFile |-> file, hasFields |-> fields,
                        form |-> form]
            IN  IF early # NoResponse
                THEN /\ req' = Set(r, [pc |-> "done", resp |-> early] @@ got)
                     /\ UNCHANGED clock
                ELSE /\ clock' = now
                     /\ req' = Set(r, [pc |-> "write",
                                       fileName |-> [ts |-> now, name |-> name]] @@ got)
    /\ UNCHANGED <<Shared, dirExists, disk, fsFns, envHome, configFile, domMatrix>>

\* a handler whose writeFile is inside the inner try block
WriteUploadInsideTry(r) ==
    /\ req[r].pc = "write"
    /\ LET file == [path |-> req[r].fileName, owner |-> r]
           failure == Error(<<"ENOSPC: no space left on device, write">>)
       IN  \/ /\ disk' = WithoutPath(file.path) \cup {file}
              /\ req' = Set(r, [pc |-> "extract", written |-> TRUE])
           \/ /\ disk' = WithoutPath(file.path) \cup {file}
              /\ req' = Throw(r, failure, [written |-> FALSE])
           \/ /\ UNCHANGED disk
              /\ req' = Throw(r, failure, [written |-> FALSE])
    /\ UNCHANGED <<Shared, clock, dirExists, fsFns, envHome, configFile, domMatrix>>

\* await file.arrayBuffer(); await writeFile(filePath, ...)
WriteUpload(r) ==
    /\ req[r].pc = "write"
    /\ LET file == [path |-> req[r].fileName, owner |-> r]
           failure == Error(<<"ENOSPC: no space left on device, write">>)
       IN  \/ /\ disk' = WithoutPath(file.path) \cup {file}
              /\ req' = Set(r, [pc |-> "extract", written |-> TRUE])
           \/ /\ disk' = WithoutPath(file.path) \cup {file}
              /\ req' = Caught(r, failure)
           \/ /\ UNCHANGED disk
              /\ req' = Caught(r, failure)
    /\ UNCHANGED <<Shared, clock, dirExists, fsFns, envHome, configFile, domMatrix>>

\* await extractText(filePath, fileType) and the length check
ExtractText(r, in) ==
    /\ req[r].pc = "extract"
    /\ LET fileType == FileType(req[r].fileName)
           pdf == IsPdf(fileType)
           count == [nExtract |-> req[r].nExtract + 1]
       IN  IF ~pdf /\ ~IsDocx(fileType)
           THEN /\ req' = Throw(r, Error(MsgUnsupported(rev)), count)
                /\ UNCHANGED domMatrix
           ELSE /\ domMatrix' = (domMatrix \/ (pdf /\ rev # RevSdk))
                /\ \/ /\ ~OnDisk(req[r].fileName)
                      /\ req' = Throw(r, ExtractionError(rev, pdf,
                                         Error(<<"ENOENT: no such file or directory, open">>)), count)
                   \/ /\ OnDisk(req[r].fileName)
                      /\ \E e \in in.errors :
                            req' = Throw(r, ExtractionError(rev, pdf, e), count)
                   \/ /\ OnDisk(req[r].fileName)
                      /\ \E raw \in in.texts :
                            LET studentWork == IF pdf THEN PdfText(rev, raw)
                                               ELSE DocxText(rev, raw)
                                got == [extracted |-> TRUE, text |-> studentWork] @@ count
                            IN  IF TooShort(rev, studentWork)
                                THEN req' = Throw(r, Error(MsgTooShort(rev, studentWork)), got)
                                ELSE req' = Set(r, [pc |-> "init"] @@ got)
    /\ UNCHANGED <<Shared, clock, dirExists, disk, fsFns, envHome, configFile>>


\* const zai = await initZAI() / initLLM() / ZAI.create(), up to its first await
InitClient(r, in) ==
    /\ req[r].pc = "init"
    /\ LET count == [nInit |-> req[r].nInit + 1]
       IN  CASE OwnClient(rev) ->
                    /\ req' = Set(r, [pc |-> "call"] @@ count)
                    /\ UNCHANGED <<fsFns, envHome, configFile>>
             [] rev = RevSdk ->
                    /\ \/ req' = Set(r, [pc |-> "call"] @@ count)
                       \/ \E e \in in.errors : req' = Throw(r, e, count)
                    /\ UNCHANGED <<fsFns, envHome, configFile>>
             [] rev = RevPatch ->
                    /\ req' = Set(r, [pc |-> "sdkInit", saved |-> fsFns])
                    /\ fsFns' = r
                    /\ UNCHANGED <<envHome, configFile>>
             [] rev = RevConfig ->
                    \/ /\ configFile' = TRUE
                       /\ envHome' = "/tmp"
                       /\ req' = Set(r, [pc |-> "sdkInit"])
                       /\ UNCHANGED fsFns
                    \/ /\ req' = Set(r, [pc |-> "sdkRetry"])
                       /\ UNCHANGED <<fsFns, envHome, configFile>>
    /\ UNCHANGED <<Shared, clock, dirExists, disk, domMatrix>>

\* await import('z-ai-web-dev-sdk'); await ZAI.create() and what follows it
SdkInit(r, in) ==
    /\ req[r].pc = "sdkInit"
    /\ LET count == [nInit |-> req[r].nInit + 1]
       IN  IF rev = RevPatch
           THEN /\ fsFns' = req[r].saved
                /\ \/ req' = Set(r, [pc |-> "call"] @@ count)
                   \/ \E e \in in.errors : req' = Throw(r, e, count)
           ELSE /\ UNCHANGED fsFns
                /\ \/ req' = Set(r, [pc |-> "call"] @@ count)
                   \/ \E e \in in.errors :
                         req' = IF e.nullish THEN Throw(r, MessageTypeError, count)
                                ELSE Set(r, [pc |-> "sdkRetry"] @@ count)
    /\ UNCHANGED <<Shared, clock, dirExists, disk, envHome, configFile, domMatrix>>

\* a fallback that is tried again for as long as it fails
SdkRetryAgain(r, in) ==
    /\ req[r].pc = "sdkRetry"
    /\ LET count == [nInit |-> req[r].nInit + 1]
       IN  \/ req' = Set(r, [pc |-> "call"] @@ count)
           \/ \E e \in in.errors : req' = Set(r, count)
    /\ UNCHANGED <<Shared, clock, dirExists, disk, fsFns, envHome, configFile, domMatrix>>

\* the fallback of the config-file initZAI: ZAI.create({apiEndpoint, apiKey})
SdkRetry(r, in) ==
    /\ req[r].pc = "sdkRetry"
    /\ LET count == [nInit |-> req[r].nInit + 1]
       IN  \/ req' = Set(r, [pc |-> "call"] @@ count)
           \/ \E e \in in.errors : req' = Throw(r, e, count)
    /\ UNCHANGED <<Shared, clock, dirExists, disk, fsFns, envHome, configFile, domMatrix>>

\* createCompletion's `if (!this.apiKey) throw`: only the clients of the repository have it
RefusesWithoutKey(rv) == OwnClient(rv)

\* evaluateWork's return or throw once the endpoint has answered with `completion`
Answered(r, completion, more) ==
    LET parsed == EvaluateReply(rev, completion)
        got == [completion |-> completion] @@ more
    IN  IF parsed.ok
        THEN Set(r, [pc |-> "finally", hasResult |-> TRUE, result |-> parsed.value] @@ got)
        ELSE Throw(r, EvaluationError(rev, Error(parsed.msg)), got)

\* await zai.chat.completions.create({...}) and the rest of evaluateWork's try block
CallModel(r, in) ==
    /\ req[r].pc = "call"
    /\ LET count == [nCreate |-> req[r].nCreate + 1]
           sent == [nHttp |-> req[r].nHttp + 1,
                    conversation |-> Conversation(rev, req[r].form, req[r].text)] @@ count
           refused == RefusesWithoutKey(rev) /\ ~keyConfigured
       IN  \/ /\ refused
              /\ req' = Throw(r, EvaluationError(rev, Error(MsgMissingKey(rev))), count)
           \/ /\ ~OwnClient(rev)
              /\ ~refused
              /\ \E e \in in.errors : req' = Throw(r, EvaluationError(rev, e), count)
           \/ /\ ~refused
              /\ req' = Throw(r, EvaluationError(rev, Error(<<"fetch failed">>)), sent)
           \/ /\ ~refused
              /\ \E status \in in.statuses, body \in UpstreamBodies :
                    LET e == IF OwnClient(rev) THEN Error(MsgUpstream(status, body))
                             ELSE SdkUpstreamError(status, body)
                    IN  req' = Throw(r, EvaluationError(rev, e),
                                     [upstream |-> [status |-> status, body |-> body]] @@ sent)
           \/ /\ ~refused
              /\ \E completion \in in.completions : req' = Answered(r, completion, sent)
    /\ UNCHANGED <<Shared, clock, dirExists, disk, fsFns, envHome, configFile, domMatrix>>

\* an unlink that resolves without removing the file
UnlinkedNothing(path) == disk

\* the files of the scratch directory once unlink(path) has resolved
Unlinked(path) == WithoutPath(path)

\* a finally block that lets the rejection of unlink through
UnlinkRejectionThrown(r, e, more) == Set(r, more @@ [failed |-> TRUE, thrown |-> e])

\* .catch(console.error) / catch (error) { console.error(...) }: the rejection
\* of unlink is logged and the request goes on as it was
UnlinkRejected(r, e, more) == Set(r, more)

\* finally { await unlink(filePath) }, its rejection swallowed
Unlink(r) ==
    /\ req[r].pc = "finally"
    /\ LET path == req[r].fileName
           count == [pc |-> "respond", nUnlink |-> req[r].nUnlink + 1]
       IN  \/ /\ OnDisk(path)
              /\ disk' = Unlinked(path)
              /\ req' = Set(r, [unlinkOk |-> TRUE] @@ count)
           \/ /\ OnDisk(path)
              /\ UNCHANGED disk
              /\ req' = UnlinkRejected(r, Error(<<"EPERM: operation not permitted, unlink">>),
                                       count)
           \/ /\ ~OnDisk(path)
              /\ UNCHANGED disk
              /\ req' = UnlinkRejected(r, Error(<<"ENOENT: no such file or directory, unlink">>),
                                       count)
    /\ UNCHANGED <<Shared, clock, dirExists, fsFns, envHome, configFile, domMatrix>>

\* return NextResponse.json(result), or the outer catch block's response
Respond(r) ==
    /\ req[r].pc = "respond"
    /\ req' = IF req[r].failed THEN Caught(r, req[r].thrown)
              ELSE Set(r, [pc |-> "done", resp |-> JsonResponse(req[r].result)])
    /\ UNCHANGED <<Shared, clock, dirExists, disk, fsFns, envHome, configFile, domMatrix>>

(***************************************************************************)
(* The pipeline: one request ("r1") against one deployed revision.         *)
(***************************************************************************)
Init ==
    /\ rev \in Revisions
    /\ keyConfigured \in BOOLEAN
    /\ clock = 0
    /\ dirExists \in BOOLEAN
    /\ disk = {}
    /\ fsFns = "orig"
    /\ envHome = "/home/app"
    /\ configFile = FALSE
    /\ domMatrix = FALSE
    /\ req = [r \in Requests |-> IF r = "r1" THEN [pc |-> "start"] @@ IdleRequest
                                 ELSE IdleRequest]
    /\ arg = NoArg
    /\ res = NoRes
    /\ page = FreshPage

Next ==
    \/ \E r \in Requests : EnsureUploadDir(r)
    \/ \E r \in Requests : ParseForm(r, AnyInput)
    \/ \E r \in Requests : WriteUpload(r)
    \/ \E r \in Requests : ExtractText(r, AnyInput)
    \/ \E r \in Requests : InitClient(r, AnyInput)
    \/ \E r \in Requests : SdkInit(r, AnyInput)
    \/ \E r \in Requests : SdkRetry(r, AnyInput)
    \/ \E r \in Requests : CallModel(r, AnyInput)
    \/ \E r \in Requests : Unlink(r)
    \/ \E r \in Requests : Respond(r)

Spec == Init /\ [][Next]_vars


(***************************************************************************)
(* Two requests in flight in one server process.  Each is handed one of a  *)
(* few uploads, texts and answers; the steps are those of the pipeline.    *)
(***************************************************************************)
LongText == Repeat("a", MinTextLen)
ShortText == Repeat("a", MinTextLen - 1)

PairInput ==
    [ names       |-> {<<"essay", "pdf">>, <<"pdf">>},
      forms       |-> {f \in Forms : f.instructions = "I"},
      texts       |-> {LongText, ShortText},
      completions |-> {[shape |-> "content", content |-> <<"{", "}">>],
                       [shape |-> "content", content |-> <<"x">>]},
      statuses    |-> {"429"},
      errors      |-> {Error(<<"library failure">>)} ]

InitPair ==
    /\ rev \in Revisions
    /\ keyConfigured \in BOOLEAN
    /\ clock = 0
    /\ dirExists \in BOOLEAN
    /\ disk = {}
    /\ fsFns = "orig"
    /\ envHome = "/home/app"
    /\ configFile = FALSE
    /\ domMatrix = FALSE
    /\ req = [r \in Requests |-> [pc |-> "start"] @@ IdleRequest]
    /\ arg = NoArg
    /\ res = NoRes
    /\ page = FreshPage

NextPair ==
    \/ \E r \in Requests : EnsureUploadDir(r)
    \/ \E r \in Requests : ParseForm(r, PairInput)
    \/ \E r \in Requests : WriteUpload(r)
    \/ \E r \in Requests : ExtractText(r, PairInput)
    \/ \E r \in Requests : InitClient(r, PairInput)
    \/ \E r \in Requests : SdkInit(r, PairInput)
    \/ \E r \in Requests : SdkRetry(r, PairInput)
    \/ \E r \in Requests : CallModel(r, PairInput)
    \/ \E r \in Requests : Unlink(r)
    \/ \E r \in Requests : Respond(r)

SpecPair == InitPair /\ [][NextPair]_vars

(***************************************************************************)
(* The synchronous functions of `fs` that the patching initZAI replaces.   *)
(* A path is a sequence of pieces of its text; <<>> is a falsy argument    *)
(* (undefined or the empty string).                                        *)
(***************************************************************************)
ConfigName == ".z-ai-config"
UploadDirPath == <<"/tmp/uploads">>
TmpConfigPath == <<"/tmp/", ConfigName>>

FsPaths ==
    { <<>>, UploadDirPath, TmpConfigPath, <<"/home/app/", ConfigName>>,
      <<"/tmp/", ConfigName, ".bak">>, <<"/tmp/", "z-ai-config">> }

FsFunctions == {"existsSync", "readFileSync", "statSync"}

Returned(value) == [ok |-> TRUE, value |-> value, msg |-> <<>>]
Thrown(msg) == [ok |-> FALSE, value |-> <<>>, msg |-> msg]

\* JSON.stringify({ apiEndpoint, apiKey: process.env.Z_AI_API_KEY || '' }, null, 2)
VirtualConfigContent ==
    <<"{apiEndpoint: https://api.z-ai.com, apiKey: ", IF keyConfigured THEN "key" ELSE "", "}">>

\* what Node's own fs.existsSync / readFileSync / statSync give for a path
OriginalFs(fn, path) ==
    LET dir == path = UploadDirPath /\ dirExists
        file == path = TmpConfigPath /\ configFile
    IN  CASE fn = "existsSync" -> Returned(IF dir \/ file THEN <<"true">> ELSE <<"false">>)
          [] fn = "readFileSync" ->
                IF file THEN Returned(<<"the content of /tmp/.z-ai-config">>)
                ELSE IF dir THEN Thrown(<<"EISDIR: illegal operation on a directory, read">>)
                ELSE Thrown(<<"ENOENT: no such file or directory, open">>)
          [] fn = "statSync" ->
                IF file THEN Returned(<<"isFile: true", "size of the file">>)
                ELSE IF dir THEN Returned(<<"isFile: false">>)
                ELSE Thrown(<<"ENOENT: no such file or directory, stat">>)

\* a patch that answers for every path it is given
PatchedAnyPath(fn, path, inner) ==
    CASE fn = "existsSync" -> Returned(<<"true">>)
      [] fn = "readFileSync" -> Returned(VirtualConfigContent)
      [] fn = "statSync" -> Returned(<<"isFile: true", "size of">> \o VirtualConfigContent)

\* the three arrow functions initZAI installs: the virtual answer when
\* `filePath && filePath.toString().includes('.z-ai-config')`, else `inner`,
\* the result of the saved function
PatchedFs(fn, path, inner) ==
    IF path # <<>> /\ Includes(path, <<ConfigName>>)
    THEN CASE fn = "existsSync" -> Returned(<<"true">>)
           [] fn = "readFileSync" -> Returned(VirtualConfigContent)
           [] fn = "statSync" -> Returned(<<"isFile: true", "size of">> \o VirtualConfigContent)
    ELSE inner

\* fs[fn](path) when the function installed is `f`: Node's own, or the patch
\* of a request, which wraps the function that request saved
RECURSIVE CallFs(_, _, _)
CallFs(f, fn, path) ==
    IF f = "orig" THEN OriginalFs(fn, path)
    ELSE PatchedFs(fn, path, CallFs(req[f].saved, fn, path))

\* some code of the process (the SDK reading its configuration, Next.js, the
\* handler of another request) calls fs.existsSync / readFileSync / statSync
FsCall ==
    /\ \E fn \in FsFunctions, path \in FsPaths :
          /\ arg' = [fn |-> fn, rv |-> rev, s |-> path, via |-> fsFns]
          /\ res' = [done |-> TRUE] @@ CallFs(fsFns, fn, path)
    /\ UNCHANGED <<rev, keyConfigured, clock, dirExists, disk, fsFns, envHome,
                   configFile, domMatrix, req, page>>

(***************************************************************************)
(* One request against the revision with the patching initZAI, in a        *)
(* process whose other code calls the functions of `fs` at any time.       *)
(***************************************************************************)
InitPatch ==
    /\ rev = RevPatch
    /\ keyConfigured \in BOOLEAN
    /\ clock = 0
    /\ dirExists \in BOOLEAN
    /\ disk = {}
    /\ fsFns = "orig"
    /\ envHome = "/home/app"
    /\ configFile \in BOOLEAN
    /\ domMatrix = FALSE
    /\ req = [r \in Requests |-> IF r = "r1" THEN [pc |-> "start"] @@ IdleRequest
                                 ELSE IdleRequest]
    /\ arg = NoArg
    /\ res = NoRes
    /\ page = FreshPage

NextPatch ==
    \/ \E r \in Requests : EnsureUploadDir(r)
    \/ \E r \in Requests : ParseForm(r, PairInput)
    \/ \E r \in Requests : WriteUpload(r)
    \/ \E r \in Requests : ExtractText(r, PairInput)
    \/ \E r \in Requests : InitClient(r, PairInput)
    \/ \E r \in Requests : SdkInit(r, PairInput)
    \/ \E r \in Requests : CallModel(r, PairInput)
    \/ \E r \in Requests : Unlink(r)
    \/ \E r \in Requests : Respond(r)
    \/ FsCall

SpecPatch == InitPatch /\ [][NextPatch]_vars

(***************************************************************************)
(* The response parser alone: one reply, one application of the tail of    *)
(* evaluateWork.                                                           *)
(***************************************************************************)
Replies == SeqsUpTo(ReplyTokens, MaxReplyLen)

Quiet ==
    /\ keyConfigured = FALSE
    /\ clock = 0
    /\ dirExists = FALSE
    /\ disk = {}
    /\ fsFns = "orig"
    /\ envHome = "/home/app"
    /\ configFile = FALSE
    /\ domMatrix = FALSE
    /\ req = [r \in Requests |-> IdleRequest]
    /\ res = NoRes
    /\ page = FreshPage

InitParser ==
    /\ Quiet
    /\ rev \in Revisions
    /\ arg \in {[fn |-> "parse", rv |-> rev, s |-> reply] : reply \in Replies}

ParserStep ==
    /\ arg.fn = "parse"
    /\ ~res.done
    /\ res' = [done |-> TRUE] @@ ParseReply(arg.rv, arg.s)
    /\ UNCHANGED <<rev, keyConfigured, clock, dirExists, disk, fsFns, envHome,
                   configFile, domMatrix, req, arg, page>>

NextParser == ParserStep

SpecParser == InitParser /\ [][NextParser]_vars

(***************************************************************************)
(* The URL builder alone: one value of the base-URL variable, one          *)
(* application of createCompletion's URL construction.                     *)
(***************************************************************************)
BaseUrls == {<<>>} \cup {Host \o path : path \in SeqsUpTo(UrlTokens, MaxUrlLen)}

InitUrl ==
    /\ Quiet
    /\ rev \in {RevZai, RevOpenAI}
    /\ arg \in {[fn |-> "url", rv |-> rev, s |-> base] : base \in BaseUrls}

UrlStep ==
    /\ arg.fn = "url"
    /\ ~res.done
    /\ res' = [done |-> TRUE, ok |-> TRUE, value |-> BuildUrl(arg.rv, arg.s), msg |-> <<>>]
    /\ UNCHANGED <<rev, keyConfigured, clock, dirExists, disk, fsFns, envHome,
                   configFile, domMatrix, req, arg, page>>

NextUrl == UrlStep

SpecUrl == InitUrl /\ [][NextUrl]_vars

(***************************************************************************)
(* The form page alone, against any of the revisions of POST.              *)
(***************************************************************************)
InitPage ==
    /\ Quiet
    /\ rev \in Revisions
    /\ arg = NoArg

NextPage ==
    \/ HandleFileChange
    \/ SetField
    \/ HandleSubmit
    \/ FetchSettled
    \/ HandleReset

SpecPage == InitPage /\ [][NextPage]_vars


(***************************************************************************)
(* Properties.                                                             *)
(***************************************************************************)
Done(r) == req[r].pc = "done"

\* a file written by request r is in the scratch directory
Leftover(r) == \E f \in disk : f.owner = r

\* the unlink of the scratch file was attempted once, and the file is gone
\* unless that unlink was rejected
CleanedUp(r) ==
    /\ req[r].nUnlink = 1
    /\ Leftover(r) => ~req[r].unlinkOk

\* C1, as claimed: on every exit path behind the write of the upload (success
\* and each error kind), once the response has been returned the scratch
\* directory holds no file of the request.
C1_NoFileAfterResponse ==
    \A r \in Requests : Done(r) /\ req[r].written => ~Leftover(r)

\* C1, amended: on every exit path behind the write of the upload, the unlink
\* of the scratch file has been attempted exactly once when the response is
\* returned, and the scratch directory holds no file of the request unless
\* that unlink was rejected.
C1_CleanupAttempted ==
    \A r \in Requests : Done(r) /\ req[r].written => CleanedUp(r)

C1_Witness ==
    \E r \in Requests :
        /\ Done(r) /\ req[r].written /\ req[r].failed
        /\ req[r].resp.status = 500
        /\ req[r].unlinkOk /\ disk = {}

\* C2: when the endpoint answers with a non-success status, the response is
\* HTTP 500 with an error message that holds the upstream status and the
\* upstream body, and the unlink of the scratch file has run.
C2_UpstreamErrorReported ==
    \A r \in Requests :
        Done(r) /\ req[r].upstream # NoUpstream =>
            /\ req[r].resp.status = 500
            /\ req[r].resp.hasError
            /\ Contains(req[r].resp.error, req[r].upstream.status)
            /\ Contains(req[r].resp.error, req[r].upstream.body)
            /\ req[r].nUnlink = 1


\* the position of the "}" that closes the "{" at position i: the first
\* position behind i where the nesting depth is back to zero (0 if none)
RECURSIVE MatchingClose(_, _, _)
MatchingClose(s, j, depth) ==
    IF j > Len(s) THEN 0
    ELSE IF s[j] = "{" THEN MatchingClose(s, j + 1, depth + 1)
    ELSE IF s[j] = "}" THEN (IF depth = 1 THEN j ELSE MatchingClose(s, j + 1, depth - 1))
    ELSE MatchingClose(s, j + 1, depth)

FirstObjectEnd(s) == MatchingClose(s, FirstOpen(s) + 1, 1)
FirstObject(s) == SubSeq(s, FirstOpen(s), FirstObjectEnd(s))

\* the value JSON.parse gives for the text of an object
ObjectValue(text) == SelectSeq(text, NotWs)

\* a well-formed object, then further text that holds a "}"
ObjectThenBrace(s) ==
    /\ Opens(s) # {}
    /\ FirstObjectEnd(s) # 0
    /\ IsObjectText(FirstObject(s))
    /\ \E k \in (FirstObjectEnd(s) + 1)..Len(s) : s[k] = "}"

\* C3: for a reply that holds a well-formed object followed by further text
\* containing "}", the parser takes the balanced span from the first "{" to
\* its matching "}" and returns that first object.
C3_FirstObjectReturned ==
    res.done /\ ObjectThenBrace(arg.s) =>
        res.ok /\ res.value = ObjectValue(FirstObject(arg.s))

BraceFree(s) == ~Contains(s, "{") /\ ~Contains(s, "}")

\* s is brace-free text, the object text s[i..j], and brace-free text
Embeds(s, i, j) ==
    /\ BraceFree(SubSeq(s, 1, i - 1))
    /\ IsObjectText(SubSeq(s, i, j))
    /\ BraceFree(SubSeq(s, j + 1, Len(s)))

\* C4: for a reply made of brace-free text, one well-formed JSON object and
\* optional brace-free text, in every revision the parser returns exactly
\* that object.
C4_EmbeddedObjectReturned ==
    res.done =>
        \A i \in 1..Len(arg.s) : \A j \in i..Len(arg.s) :
            Embeds(arg.s, i, j) =>
                res.ok /\ res.value = ObjectValue(SubSeq(arg.s, i, j))

C4_Witness ==
    /\ res.done
    /\ arg.s = <<"x", "{", "{", "}", "}">>
    /\ res.ok
    /\ res.value = <<"{", "{", "}", "}">>

\* the reply holds no {...} span, or its span is not JSON
NoJsonObject(reply) == ~HasMatch(reply) \/ ~JsonParse(MatchSpan(reply)).ok

\* C5: a non-empty reply without a {...} span, or whose span does not parse,
\* ends in HTTP 500 with an error message, in every revision.
C5_InvalidReplyRejected ==
    \A r \in Requests :
        /\ Done(r)
        /\ req[r].completion.shape = "content"
        /\ req[r].completion.content # <<>>
        /\ NoJsonObject(req[r].completion.content)
        => req[r].resp.status = 500 /\ req[r].resp.hasError

\* C6: in every revision an extracted text shorter than 10 characters after
\* trimming is rejected with the too-short error and the model client is
\* neither initialised nor called for it.
C6_ShortTextRejected ==
    \A r \in Requests :
        req[r].extracted /\ Len(TrimWs(req[r].text)) < MinTextLen =>
            /\ req[r].nInit = 0 /\ req[r].nCreate = 0 /\ req[r].nHttp = 0
            /\ req[r].failed
            /\ req[r].thrown = Error(MsgTooShort(rev, req[r].text))

\* C7: a request whose form has no `file` field gets HTTP 400 with an error
\* message; no scratch file is written, no extraction runs and the model
\* client is not called for it.
C7_MissingFile ==
    \A r \in Requests :
        req[r].parsed /\ ~req[r].hasFile =>
            /\ Done(r)
            /\ req[r].resp.status = 400
            /\ req[r].resp.hasError /\ req[r].resp.error # <<>>
            /\ ~req[r].written /\ ~Leftover(r)
            /\ req[r].nExtract = 0 /\ req[r].nInit = 0
            /\ req[r].nCreate = 0 /\ req[r].nHttp = 0 /\ req[r].nUnlink = 0

C7_Witness ==
    \E r \in Requests :
        /\ Done(r) /\ req[r].parsed /\ ~req[r].hasFile
        /\ req[r].resp = ErrorResponse(400, MsgMissingFile(rev))
        /\ disk = {}

\* the lower-cased extension of the uploaded name is neither pdf nor docx
Unsupported(name) ==
    \/ Len(name) = 1
    \/ name[Len(name)] \notin {"pdf", "PDF", "docx", "Docx", "DOCX"}

\* once extractText has run for r: an unsupported type has thrown the
\* unsupported-type error, any spelling of pdf or docx has not
Dispatched(r) ==
    IF Unsupported(req[r].fileName.name)
    THEN req[r].failed /\ req[r].thrown = Error(MsgUnsupported(rev))
    ELSE ~(req[r].failed /\ req[r].thrown.msg = MsgUnsupported(rev))

\* C8, as claimed: an unsupported extension ends in the unsupported-type
\* error, always with HTTP 500, and the scratch file is deleted; PDF and DOCX
\* in any letter case are dispatched like pdf and docx.
C8_UnsupportedDeleted ==
    \A r \in Requests :
        req[r].nExtract > 0 =>
            /\ Dispatched(r)
            /\ Done(r) /\ Unsupported(req[r].fileName.name) =>
                  /\ req[r].resp = ErrorResponse(500, MsgUnsupported(rev))
                  /\ ~Leftover(r)

\* C8, amended: an unsupported extension ends in the unsupported-type error,
\* always with HTTP 500, after one attempt to unlink the scratch file, which
\* is gone unless that unlink was rejected; PDF and DOCX in any letter case
\* are dispatched like pdf and docx.
C8_UnsupportedCleanedUp ==
    \A r \in Requests :
        req[r].nExtract > 0 =>
            /\ Dispatched(r)
            /\ Done(r) /\ Unsupported(req[r].fileName.name) =>
                  /\ req[r].resp = ErrorResponse(500, MsgUnsupported(rev))
                  /\ CleanedUp(r)

C8_Witness ==
    \E r \in Requests :
        /\ Done(r)
        /\ req[r].fileName.name = <<"notes", "txt">>
        /\ req[r].resp = ErrorResponse(500, MsgUnsupported(rev))
        /\ req[r].unlinkOk /\ disk = {}

\* the missing-credential error as the orchestrator sees it
MissingCredential(rv) == EvaluationError(rv, Error(MsgMissingKey(rv)))

\* C9: when no API key is configured, a call of the model client fails with
\* the missing-credential error before any outbound HTTP request, and the
\* request ends with an error response (not 200) once the unlink of the
\* scratch file has run.
C9_NoKeyNoRequest ==
    \A r \in Requests :
        ~keyConfigured /\ req[r].nCreate > 0 =>
            /\ req[r].nHttp = 0
            /\ req[r].failed /\ req[r].thrown = MissingCredential(rev)
            /\ Done(r) => /\ req[r].resp.status \notin {0, 200}
                          /\ req[r].resp.hasError
                          /\ req[r].nUnlink = 1

\* a base URL as the claim takes it: the host, then optionally the version
\* segment, then optionally the completion path, then any trailing slashes
Optional(part) == {<<>>, part}

WellFormedBase(base) ==
    \E v \in Optional(VersionPath), c \in Optional(CompletionPath) :
        StripSlashes(base) = Host \o v \o c

Count(s, part) == Cardinality(Occurrences(s, part))

\* C10: for every such base URL the final URL holds `chat/completions`
\* exactly once and the version segment at most once.
C10_NoDuplicateSegment ==
    res.done /\ arg.fn = "url" /\ WellFormedBase(arg.s) =>
        /\ Count(res.value, <<"chat", "/", "completions">>) = 1
        /\ Count(res.value, <<"v1">>) <= 1


\* 400 is the answer to a form without the file or, in the strict revisions,
\* without instructions or criteria
BadForm(r) ==
    req[r].parsed /\ (~req[r].hasFile \/ (Strict(rev) /\ ~req[r].hasFields))

\* C11: every response has status 200, 400 or 500; 400 only for a missing
\* file or missing required fields, 500 for every failure behind the write
\* (extraction, model, parse), 200 only when a model reply was parsed; and
\* every 400 and 500 response has a body with an `error` message.
C11_StatusAndErrorBody ==
    \A r \in Requests :
        Done(r) =>
            /\ req[r].resp.status \in {200, 400, 500}
            /\ req[r].resp.status = 400 => BadForm(r) /\ ~req[r].written
            /\ req[r].failed => req[r].resp.status = 500
            /\ req[r].resp.status = 200 =>
                   req[r].hasResult /\ req[r].completion.shape = "content"
            /\ req[r].resp.status \in {400, 500} =>
                   req[r].resp.hasError /\ req[r].resp.error # <<>>

\* what steps 4-6 (extraction, length check, evaluation) left for the response
Outcome(q) == <<q.failed, q.thrown, q.hasResult, q.result>>

\* the response that belongs to the outcome of steps 4-6
Primary(q) == IF q.failed THEN CatchResponse(rev, q.thrown) ELSE JsonResponse(q.result)

\* C12: the step that runs the unlink of the scratch file leaves the outcome
\* of steps 4-6 as it was, whether the unlink resolves or is rejected, and the
\* response returned after it is the one that belongs to that outcome: a
\* cleanup failure never turns a result into an error or one error into
\* another.
C12_CleanupFailureSwallowed ==
    [][\A r \in Requests :
          /\ req[r].pc = "finally" /\ req'[r].pc # "finally" =>
                req'[r].pc = "respond" /\ Outcome(req'[r]) = Outcome(req[r])
          /\ req[r].pc = "respond" /\ Done(r)' =>
                req'[r].resp = Primary(req[r])]_vars

C12_Witness ==
    \E r \in Requests :
        /\ Done(r) /\ req[r].nUnlink = 1 /\ ~req[r].unlinkOk /\ Leftover(r)
        /\ req[r].resp = JsonResponse(req[r].result) /\ req[r].hasResult

\* the numbers of attempts of the fallible steps of one request
Attempts(q) == <<q.nExtract, q.nInit, q.nCreate, q.nHttp>>

InitAttempts(rv) == IF rv = RevConfig THEN 2 ELSE 1

HoldsPath(r) == req[r].pc \in {"write", "extract", "init", "sdkInit", "sdkRetry", "call", "finally"}

\* C14: two requests in flight at the same time have different scratch
\* paths, and the file a request has written is still its own file on disk
\* when it comes to extract its text: no other request has overwritten or
\* unlinked it.
C14_ScratchFileExclusive ==
    \A r \in Requests :
        /\ \A o \in Requests \ {r} :
              HoldsPath(r) /\ HoldsPath(o) => req[r].fileName # req[o].fileName
        /\ req[r].pc = "extract" => [path |-> req[r].fileName, owner |-> r] \in disk

\* the process-wide state and the configuration file are as they were before
\* the first request
ProcessUntouched ==
    /\ envHome = "/home/app"
    /\ ~configFile
    /\ ~domMatrix
    /\ fsFns = "orig"

\* C15: once a request has completed, the state of the process that a later
\* request can observe (environment variables, globals, the patched fs
\* functions) and the files outside the scratch directory are the same as
\* before the request.
C15_NothingPersisted ==
    \A r \in Requests : Done(r) => ProcessUntouched

\* the endpoint has answered the request of r (with a completion or a
\* non-success status)
StubAnswered(r) ==
    req[r].nHttp = 1 /\ (req[r].completion # NoCompletion \/ req[r].upstream # NoUpstream)

\* r has run to its response and every external step on its way returned:
\* the form was read, the upload was written, a supported file yielded a text,
\* the client was created and the endpoint answered
RanToEnd(r) ==
    /\ Done(r) /\ req[r].parsed
    /\ \/ BadForm(r)
       \/ /\ req[r].written
          /\ \/ Unsupported(req[r].fileName.name)
             \/ /\ req[r].extracted
                /\ \/ TooShort(rev, req[r].text)
                   \/ /\ req[r].nCreate = 1
                      /\ (RefusesWithoutKey(rev) /\ ~keyConfigured) \/ StubAnswered(r)

\* two runs with the same form fields, the same file name and the same file
\* content (the library finds the same text in it)
SameInputs(a, b) ==
    /\ req[a].hasFile = req[b].hasFile
    /\ req[a].form = req[b].form
    /\ req[a].fileName.name = req[b].fileName.name
    /\ req[a].extracted /\ req[b].extracted => req[a].text = req[b].text

\* the stub answers equal conversations alike
StubDeterministic(a, b) ==
    req[a].conversation = req[b].conversation =>
        req[a].completion = req[b].completion /\ req[a].upstream = req[b].upstream

\* C16: two runs of the handler that both ran to their response, with the
\* same form fields and the same file against a deterministic stub, have sent
\* the same conversation and returned the same response, whatever the time
\* stamps of their scratch files and whichever of them ran first.  (A run
\* whose external step failed, the loss of the scratch file to another
\* request included, is not one of these runs.)
C16_Deterministic ==
    \A a \in Requests : \A b \in Requests :
        RanToEnd(a) /\ RanToEnd(b) /\ SameInputs(a, b) /\ StubDeterministic(a, b) =>
            /\ req[a].conversation = req[b].conversation
            /\ req[a].resp = req[b].resp

C16_Witness ==
    /\ RanToEnd("r1") /\ RanToEnd("r2") /\ SameInputs("r1", "r2")
    /\ req["r1"].fileName.ts # req["r2"].fileName.ts
    /\ req["r1"].conversation # <<>>
    /\ req["r1"].conversation = req["r2"].conversation
    /\ req["r1"].resp = req["r2"].resp /\ req["r1"].resp.status = 200
    /\ domMatrix

\* C17: for a PDF or DOCX upload whose extracted text has at least 10
\* characters (after trimming), when the endpoint returns a well-formed reply
\* (a JSON object, possibly inside brace-free text) the response is 200 and
\* its body is the parsed object as it is: nothing rejects it, no field is
\* added, removed or changed.
C17_ValidUploadAccepted ==
    \A r \in Requests :
        /\ Done(r) /\ req[r].extracted
        /\ Len(TrimWs(req[r].text)) >= MinTextLen
        /\ req[r].completion.shape = "content"
        => LET reply == req[r].completion.content
           IN  \A i \in 1..Len(reply) : \A j \in i..Len(reply) :
                   Embeds(reply, i, j) =>
                       /\ req[r].resp.status = 200 /\ ~req[r].resp.hasError
                       /\ req[r].resp.json = ObjectValue(SubSeq(reply, i, j))

C17_Witness ==
    \E r \in Requests :
        /\ Done(r) /\ req[r].fileName.name = <<"essay", "Docx">>
        /\ Len(req[r].text) = MinTextLen
        /\ req[r].completion.content = <<"x", "{", "}">>
        /\ req[r].resp.status = 200 /\ req[r].resp.json = <<"{", "}">>

\* the success body of the endpoint holds no reply text
NoReplyText(completion) ==
    \/ completion.shape \in {"noChoices", "emptyChoices", "noMessage"}
    \/ completion.shape = "content" /\ completion.content = <<>>

\* C18: when the endpoint's success response holds no reply text (`choices`
\* absent or empty, the first choice without a message, or empty content),
\* evaluateWork fails with the no-content error, nothing is parsed, and the
\* response is HTTP 500.
C18_NoContent ==
    \A r \in Requests :
        Done(r) /\ NoReplyText(req[r].completion) =>
            /\ ~req[r].hasResult
            /\ req[r].thrown = EvaluationError(rev, Error(MsgNoReply(rev)))
            /\ req[r].resp.status = 500

\* C19: in the strict revisions a request whose `instructions` or `criteria`
\* is absent or empty gets HTTP 400 with an error message, and nothing is
\* written, extracted or sent to the model for it; the message is the
\* missing-file one when the file is missing too, the missing-fields one
\* otherwise.
C19_MissingFields ==
    \A r \in Requests :
        Strict(rev) /\ req[r].parsed /\ FieldsMissing(req[r].form) =>
            /\ Done(r)
            /\ req[r].resp.status = 400
            /\ req[r].resp.hasError
            /\ req[r].resp.error = IF req[r].hasFile THEN MsgMissingFields(rev)
                                   ELSE MsgMissingFile(rev)
            /\ ~req[r].written /\ ~Leftover(r)
            /\ req[r].nExtract = 0 /\ req[r].nInit = 0
            /\ req[r].nCreate = 0 /\ req[r].nHttp = 0 /\ req[r].nUnlink = 0

C19_Witness ==
    \E r \in Requests :
        /\ Done(r) /\ rev = RevConfig /\ req[r].hasFile
        /\ req[r].form.instructions = "I" /\ req[r].form.criteria = ""
        /\ req[r].resp.status = 400 /\ req[r].resp.error = <<"Consignes manquantes">>
        /\ disk = {}

\* C20: a request never ends with an exception leaving POST, whatever value
\* was thrown on its way, and a request that has ended has been given a
\* response.
C20_OneResponse ==
    \A r \in Requests :
        /\ req[r].pc # "escaped"
        /\ Done(r) => req[r].resp # NoResponse

\* the client of the model has been used by request q: it was initialised,
\* asked for a completion, or a request left for the endpoint
ClientUsed(q) == q.nInit > 0 \/ q.nCreate > 0 \/ q.nHttp > 0

\* C21: within one request the steps happen in a fixed order, each only
\* after the one before it succeeded: the upload is written only once the
\* scratch directory exists and the form was read, the text is extracted only
\* once the upload was written, the client of the model is used only once a
\* text was extracted and passed the length check, a reply is parsed into a
\* result only once the endpoint answered, a response that follows a written
\* upload follows the unlink, and no unlink follows the response.
C21_StepOrder ==
    /\ [](\A r \in Requests :
            /\ req[r].written \/ Leftover(r) => dirExists /\ req[r].parsed
            /\ req[r].nExtract > 0 => req[r].written
            /\ ClientUsed(req[r]) =>
                  /\ req[r].extracted
                  /\ Len(IF TrimsBeforeCheck(rev) THEN TrimWs(req[r].text)
                         ELSE req[r].text) >= MinTextLen
            /\ req[r].hasResult => req[r].nHttp = 1 /\ req[r].completion # NoCompletion
            /\ req[r].written /\ req[r].resp # NoResponse => req[r].nUnlink = 1)
    /\ [][\A r \in Requests :
            req[r].resp # NoResponse => req'[r].nUnlink = req[r].nUnlink]_vars

C21_Witness ==
    \E r \in Requests :
        /\ Done(r) /\ req[r].resp.status = 200 /\ req[r].hasResult
        /\ dirExists /\ req[r].written /\ req[r].nExtract = 1 /\ req[r].nInit >= 1
        /\ req[r].nCreate = 1 /\ req[r].nHttp = 1 /\ req[r].nUnlink = 1

\* the call of initZAI by request r has returned or thrown
InitExited(r) == rev = RevPatch /\ req[r].nInit >= 1

\* C22: a single call of the patching initZAI puts back the functions of
\* `fs` that it found on entry, whether the import and ZAI.create() succeed
\* or throw: the patch is installed exactly while the call is in progress;
\* and a call of fs.existsSync / readFileSync / statSync made through the
\* patch for a path that does not contain `.z-ai-config` returns or throws
\* what Node's own function does.
C22_PatchRestored ==
    /\ \A r \in Requests :
          /\ req[r].pc = "sdkInit" => fsFns = r /\ req[r].saved = "orig"
          /\ InitExited(r) => fsFns = req[r].saved /\ fsFns = "orig"
    /\ (\A r \in Requests : req[r].pc # "sdkInit") => fsFns = "orig"
    /\ res.done /\ arg.via # "orig" /\ ~Includes(arg.s, <<ConfigName>>) =>
          res = [done |-> TRUE] @@ OriginalFs(arg.fn, arg.s)

C22_Witness ==
    /\ InitExited("r1") /\ req["r1"].failed /\ req["r1"].nCreate = 0
    /\ req["r1"].thrown = Error(<<"library failure">>)
    /\ fsFns = "orig"
    /\ res.done /\ arg.via = "r1" /\ arg.fn = "existsSync" /\ arg.s = UploadDirPath
    /\ res.value = <<"true">>

\* the other exit of initZAI: the client was created and was asked for a
\* completion, and a read through the patch threw what Node's own function throws
C22_WitnessReturn ==
    /\ InitExited("r1") /\ req["r1"].nCreate = 1 /\ req["r1"].hasResult
    /\ fsFns = "orig"
    /\ res.done /\ arg.via = "r1" /\ arg.fn = "readFileSync" /\ arg.s = <<"/tmp/", "z-ai-config">>
    /\ ~res.ok

\* no call of the patching initZAI is in progress
NoInitInProgress == \A r \in Requests : req[r].pc # "sdkInit"

\* C23: with any number of concurrent requests running the patching
\* initZAI, in any interleaving, whenever none of these calls is in progress
\* fs.existsSync, fs.readFileSync and fs.statSync are Node's own functions.
C23_ConcurrentRestore ==
    rev = RevPatch /\ NoInitInProgress => fsFns = "orig"

\* the handler of request r has ended, with a response or with an exception
Ended(r) == req[r].pc \in {"done", "escaped"}

\* C24: in every revision a request attempts the unlink of its scratch file
\* once if its writeFile returned and never otherwise: a request answered
\* with 400 and a request whose write threw have attempted no unlink when
\* they end, a request whose write returned has attempted exactly one, and
\* no request ever attempts a second.
C24_UnlinkOnceIffWritten ==
    \A r \in Requests :
        /\ req[r].nUnlink <= 1
        /\ req[r].nUnlink = 1 => req[r].written
        /\ Ended(r) => (req[r].nUnlink = 1 <=> req[r].written)
        /\ req[r].resp.status = 400 => req[r].nUnlink = 0 /\ ~req[r].written

C24_Witness ==
    \E r \in Requests :
        /\ Ended(r) /\ req[r].written /\ req[r].nUnlink = 1
        /\ req[r].failed /\ req[r].resp.status = 500

\* the other side: the write threw after creating the file, and the request
\* ended without an unlink
C24_WitnessWriteThrew ==
    \E r \in Requests :
        /\ Done(r) /\ ~req[r].written /\ Leftover(r)
        /\ req[r].nUnlink = 0 /\ req[r].resp.status = 500

\* a submission of the page ends in this step
SubmissionEnds == page.inFlight /\ ~page'.inFlight

\* C25: on the form page `isLoading` is true exactly while a submission is
\* in flight, and false again when the submission ends, with a result or with
\* an error; `result` and `error` are never both non-null; and when a
\* submission ends exactly one of the two is non-null.
C25_SubmissionState ==
    /\ [](page.isLoading <=> page.inFlight)
    /\ [](page.result = Null \/ page.error = Null)
    /\ [][SubmissionEnds =>
            /\ ~page'.isLoading
            /\ (page'.result # Null) # (page'.error # Null)]_vars

\* the file input holds a newly chosen file after this step
Chooses(name) == page'.chosen = name /\ page.chosen # name

\* C26: whatever the user does on the form page, the selected file is null
\* or a file whose name has an extension that is pdf or docx in lower case;
\* every request sent to /api/evaluate carries such a file and non-empty
\* `instructions` and `criteria`; and choosing a file of another type leaves
\* the selection as it was.
C26_PageSendsValidUploads ==
    /\ [](page.file = Null \/ ~Unsupported(page.file))
    /\ [](page.nSent > 0 =>
            /\ page.sent.file # Null /\ ~Unsupported(page.sent.file)
            /\ page.sent.instructions # "" /\ page.sent.criteria # "")
    /\ [][\A name \in PageFiles :
            Chooses(name) /\ Unsupported(name) => page'.file = page.file]_vars


====
